---- MODULE Spec2Model ----
(***************************************************************************)
(* A model of the evaluation path of mmaction2:                            *)
(*   - mmaction/datasets/activitynet_dataset.py (ActivityNetDataset),      *)
(*   - mmaction/models/necks/video_aligner.py (VideoAligner),              *)
(*   - the metric functions and evaluation hooks that                      *)
(*     mmaction/core/evaluation/__init__.py exports.                       *)
(*                                                                         *)
(* Strings that the code slices or iterates (video names, the metrics      *)
(* argument) are sequences of one-character strings.  Python dicts are     *)
(* association lists <<key, value>> in insertion order with unique keys.   *)
(* Times are whole seconds, IoU thresholds are percentages, and a ratio    *)
(* is a record [num, den] (den = 0 is numpy's nan).                        *)
(***************************************************************************)
EXTENDS Integers, Sequences, FiniteSets, TLC

VARIABLES records, fs, call, tk, hook, pipeline, training

vars == <<records, fs, call, tk, hook, pipeline, training>>

----------------------------------------------------------------------------
(* Bounds of the model. *)

MaxRecords == 2
MaxAnns == 2
MaxResults == 2
MaxProps == 2

----------------------------------------------------------------------------
(* Generic helpers. *)

Min(a, b) == IF a <= b THEN a ELSE b

Max(a, b) == IF a >= b THEN a ELSE b

Range(s) == {s[i] : i \in DOMAIN s}

SeqsUpTo(S, n) == UNION {[1..k -> S] : k \in 0..n}

(* The sequence s with every element computed (once). *)
Tabulate(s) == SubSeq(s, 1, Len(s))

RECURSIVE SumUpTo(_, _)
SumUpTo(s, n) == IF n = 0 THEN 0 ELSE SumUpTo(s, n - 1) + s[n]

SumSeq(s) == SumUpTo(s, Len(s))

(* s[n:] of Python, n >= 0. *)
PySliceFrom(s, n) == SubSeq(s, n + 1, Len(s))

(* Python dict operations on association lists. *)
DictKeys(d) == {d[i][1] : i \in DOMAIN d}

DictHas(d, k) == k \in DictKeys(d)

DictGet(d, k) == d[CHOOSE i \in DOMAIN d : d[i][1] = k][2]

DictSet(d, k, v) ==
    IF DictHas(d, k)
    THEN [i \in DOMAIN d |-> IF d[i][1] = k THEN <<k, v>> ELSE d[i]]
    ELSE Append(d, <<k, v>>)

----------------------------------------------------------------------------
(* The values the inputs are drawn from. *)

Name_v_a == <<"v", "_", "a">>
Name_v_b == <<"v", "_", "b">>
Name_w_a == <<"w", "_", "a">>

RecordNames == <<Name_v_a, Name_v_b>>

ResultNames == {Name_v_a, Name_v_b, Name_w_a}

(* Ground-truth annotations: dict(segment=[start, end], label=...). *)
Annotations ==
    { [segment |-> <<0, 10>>, label |-> "run"],
      [segment |-> <<0, 6>>, label |-> "jump"] }

(* Proposals: dict(segment=[start, end], score=...); scores in percent. *)
Proposals ==
    { [segment |-> <<0, 6>>, score |-> 60],
      [segment |-> <<5, 10>>, score |-> 90] }

(* Lists of distinct elements of S, of length at most n. *)
DistinctSeqsUpTo(S, n) ==
    { q \in SeqsUpTo(S, n) : \A i, j \in DOMAIN q : i # j => q[i] # q[j] }

AnnotationLists == DistinctSeqsUpTo(Annotations, MaxAnns)

ProposalLists == DistinctSeqsUpTo(Proposals, MaxProps)

(* The records _load_annotations builds: one per key of the annotation    *)
(* file, hence with distinct video names (here in the file's key order).  *)
RecordLists ==
    { r \in SeqsUpTo([video_name : Range(RecordNames), annotations : AnnotationLists],
                     MaxRecords) :
        \A i, j \in DOMAIN r :
            i < j => \E a, b \in DOMAIN RecordNames :
                        a < b /\ r[i].video_name = RecordNames[a]
                              /\ r[j].video_name = RecordNames[b] }

ResultEntries == [video_name : ResultNames, proposal_list : ProposalLists]

ResultLists == SeqsUpTo(ResultEntries, MaxResults)

----------------------------------------------------------------------------
(* ActivityNetDataset: conversion of records and results. *)

RECURSIVE GroundTruthRows(_)
GroundTruthRows(anns) ==
    IF anns = <<>> THEN <<>>
    ELSE << <<anns[1].segment[1], anns[1].segment[2], anns[1].label>> >>
         \o GroundTruthRows(Tail(anns))

(* _import_ground_truth with this_video_ground_truths created once, before *)
(* the loop over the records, instead of once per record.                  *)
RECURSIVE ImportGroundTruthSharingRows(_, _, _)
ImportGroundTruthSharingRows(recs, rows, ground_truth) ==
    IF recs = <<>> THEN ground_truth
    ELSE LET all == rows \o GroundTruthRows(recs[1].annotations)
         IN ImportGroundTruthSharingRows(
                Tail(recs), all,
                DictSet(ground_truth, PySliceFrom(recs[1].video_name, 2), all))

_import_ground_truth_shared_rows(recs) == ImportGroundTruthSharingRows(recs, <<>>, <<>>)

RECURSIVE ImportGroundTruthFrom(_, _)
ImportGroundTruthFrom(recs, ground_truth) ==
    IF recs = <<>> THEN ground_truth
    ELSE ImportGroundTruthFrom(
            Tail(recs),
            DictSet(ground_truth, PySliceFrom(recs[1].video_name, 2),
                    GroundTruthRows(recs[1].annotations)))

_import_ground_truth(recs) == ImportGroundTruthFrom(recs, <<>>)

RECURSIVE Proposals2JsonFrom(_, _)
Proposals2JsonFrom(results, result_dict) ==
    IF results = <<>> THEN result_dict
    ELSE Proposals2JsonFrom(
            Tail(results),
            DictSet(result_dict, PySliceFrom(results[1].video_name, 2),
                    results[1].proposal_list))

(* proposals2json keyed by video_name instead of video_name[2:]. *)
RECURSIVE Proposals2JsonByName(_, _)
Proposals2JsonByName(results, result_dict) ==
    IF results = <<>> THEN result_dict
    ELSE Proposals2JsonByName(
            Tail(results),
            DictSet(result_dict, results[1].video_name, results[1].proposal_list))

proposals2json_by_name(results) == Proposals2JsonByName(results, <<>>)

proposals2json(results) == Proposals2JsonFrom(results, <<>>)

RECURSIVE ProposalRows(_)
ProposalRows(plist) ==
    IF plist = <<>> THEN <<>>
    ELSE << <<plist[1].segment[1], plist[1].segment[2], plist[1].score>> >>
         \o ProposalRows(Tail(plist))

RECURSIVE ImportProposalsFrom(_, _, _)
ImportProposalsFrom(results, proposals, num_proposals) ==
    IF results = <<>> THEN <<proposals, num_proposals>>
    ELSE ImportProposalsFrom(
            Tail(results),
            DictSet(proposals, PySliceFrom(results[1].video_name, 2),
                    ProposalRows(results[1].proposal_list)),
            num_proposals + Len(results[1].proposal_list))

_import_proposals(results) == ImportProposalsFrom(results, <<>>, 0)

----------------------------------------------------------------------------
(* mmaction/core/evaluation: temporal IoU and average recall.              *)

Intersection(a, b) == Max(0, Min(a[2], b[2]) - Max(a[1], b[1]))

UnionLength(a, b) == (a[2] - a[1]) + (b[2] - b[1]) - Intersection(a, b)

(* IoU(p, g) >= thr / 100, without division. *)
IoUAtLeast(p, g, thr) == Intersection(p, g) * 100 >= thr * UnionLength(p, g)

(* IoU(p, g) >= IoU(p, h), without division. *)
IoUNotLess(p, g, h) ==
    Intersection(p, g) * UnionLength(p, h) >= Intersection(p, h) * UnionLength(p, g)

(* Rows ranked by score, highest first; equal scores keep their order. *)
RECURSIVE InsertByScore(_, _)
InsertByScore(ranked, row) ==
    IF ranked = <<>> THEN <<row>>
    ELSE IF ranked[1][3] >= row[3]
         THEN <<ranked[1]>> \o InsertByScore(Tail(ranked), row)
         ELSE <<row>> \o ranked

RECURSIVE RankByScore(_)
RankByScore(rows) ==
    IF rows = <<>> THEN <<>>
    ELSE InsertByScore(RankByScore(SubSeq(rows, 1, Len(rows) - 1)), rows[Len(rows)])

TruncateSkipping(ranked, budget) ==
    IF budget <= Len(ranked) THEN SubSeq(ranked, 1, budget) ELSE <<>>

TruncateToBudget(ranked, budget) == SubSeq(ranked, 1, Min(budget, Len(ranked)))

(* Greedy one-to-one assignment: each proposal, in rank order, takes the   *)
(* best still unmatched ground-truth segment it overlaps enough.           *)
RECURSIVE GreedyMatches(_, _, _, _)
GreedyMatches(props, gts, thr, used) ==
    IF props = <<>> THEN Cardinality(used)
    ELSE LET cand == {g \in DOMAIN gts \ used : IoUAtLeast(props[1], gts[g], thr)}
         IN IF cand = {} THEN GreedyMatches(Tail(props), gts, thr, used)
            ELSE LET best == CHOOSE g \in cand :
                                \A h \in cand :
                                    /\ IoUNotLess(props[1], gts[g], gts[h])
                                    /\ (IoUNotLess(props[1], gts[h], gts[g]) => g <= h)
                 IN GreedyMatches(Tail(props), gts, thr, used \cup {best})

(* A video of the ground truth that has no proposals has none to match. *)
ProposalsOfVideo(proposals, video_id) ==
    IF DictHas(proposals, video_id) THEN DictGet(proposals, video_id) ELSE <<>>

(* ranked[i]: the ranked proposals of the i-th video of the ground truth. *)
RankedPerVideo(ground_truth, proposals) ==
    Tabulate([i \in DOMAIN ground_truth |->
                RankByScore(ProposalsOfVideo(proposals, ground_truth[i][1]))])

VideoMatches(ground_truth, ranked, i, budget, thr) ==
    GreedyMatches(TruncateToBudget(ranked[i], budget), ground_truth[i][2], thr, {})

RECURSIVE MatchesUpTo(_, _, _, _, _)
MatchesUpTo(ground_truth, ranked, n, budget, thr) ==
    IF n = 0 THEN 0
    ELSE MatchesUpTo(ground_truth, ranked, n - 1, budget, thr)
         + VideoMatches(ground_truth, ranked, n, budget, thr)

RECURSIVE PositivesUpTo(_, _)
PositivesUpTo(ground_truth, n) ==
    IF n = 0 THEN 0
    ELSE PositivesUpTo(ground_truth, n - 1) + Len(ground_truth[n][2])

(* The sweep of proposal budgets has NumBudgets points; point j allows     *)
(* j / NumBudgets of max_avg_proposals proposals per video.                *)
NumBudgets == 100

BudgetOfColumn(j, max_avg_proposals) == (j * max_avg_proposals) \div NumBudgets

SweepColumns(max_avg_proposals) == 1..NumBudgets

(* recall[t][j] for threshold t and budget point j, the area under the     *)
(* curve of the threshold-averaged recall.                                 *)
average_recall_at_avg_proposals(ground_truth, proposals, num_proposals, max_avg_proposals, temporal_iou_thresholds) ==
    LET positives == PositivesUpTo(ground_truth, Len(ground_truth))
        longest == Max(0, num_proposals)
        ranked == RankedPerVideo(ground_truth, proposals)
        (* matched[t][b + 1]: ground-truth segments matched within budget b *)
        matched == Tabulate([t \in DOMAIN temporal_iou_thresholds |->
                      Tabulate([b \in 1..(longest + 1) |->
                          MatchesUpTo(ground_truth, ranked, Len(ground_truth), b - 1,
                                      temporal_iou_thresholds[t])])])
        cols == SweepColumns(max_avg_proposals)
        recall == [t \in DOMAIN temporal_iou_thresholds |->
                      [j \in cols |->
                          [num |-> matched[t][Min(BudgetOfColumn(j, max_avg_proposals),
                                                  longest) + 1],
                           den |-> positives]]]
        summed == Tabulate([b \in 1..(longest + 1) |->
                      SumSeq([t \in DOMAIN temporal_iou_thresholds |-> matched[t][b]])])
        avg == [j \in cols |->
                   summed[Min(BudgetOfColumn(j, max_avg_proposals), longest) + 1]]
        area == SumSeq([j \in 1..(Cardinality(cols) - 1) |-> avg[j] + avg[j + 1]])
    IN [recall |-> recall,
        auc |-> [num |-> max_avg_proposals * area,
                 den |-> 2 * NumBudgets * Len(temporal_iou_thresholds) * positives]]

----------------------------------------------------------------------------
(* ActivityNetDataset._evaluate.                                           *)

METRIC_AR_AN == <<"A", "R", "@", "A", "N">>

METRIC_MAP == <<"m", "A", "P">>

allowed_metrics == <<METRIC_AR_AN>>

(* The temporal_iou_thresholds argument, in percent. *)
EvalThresholds == <<50, 60, 95>>

(* The metrics argument is a str or a sequence of str; `for metric in      *)
(* metrics` yields the characters of a str and the items of a sequence.    *)
MetricsStr(chars) == [kind |-> "str", chars |-> chars]

MetricsSeq(items) == [kind |-> "seq", items |-> items]

IterateMetrics(metrics) ==
    IF metrics.kind = "str"
    THEN [i \in DOMAIN metrics.chars |-> <<metrics.chars[i]>>]
    ELSE metrics.items

(* np.mean(recall[:, c]) with the 0-based column c. *)
MeanOfColumn(recall, c) ==
    [num |-> SumSeq([t \in DOMAIN recall |-> recall[t][c + 1].num]),
     den |-> SumSeq([t \in DOMAIN recall |-> recall[t][c + 1].den])]

HasColumn(recall, c) == \A t \in DOMAIN recall : (c + 1) \in DOMAIN recall[t]

(* ARANResults reading AR@1 and AR@100 from each other's column. *)
ARANResultsSwapped(eval_results, r) ==
    DictSet(DictSet(DictSet(DictSet(DictSet(eval_results,
        "auc", r.auc),
        "AR@1", MeanOfColumn(r.recall, 99)),
        "AR@5", MeanOfColumn(r.recall, 4)),
        "AR@10", MeanOfColumn(r.recall, 9)),
        "AR@100", MeanOfColumn(r.recall, 0))

(* ARANResults reading AR@10 from column 10 and never storing AR@5. *)
ARANResultsShifted(eval_results, r) ==
    DictSet(DictSet(DictSet(DictSet(eval_results,
        "auc", r.auc),
        "AR@1", MeanOfColumn(r.recall, 0)),
        "AR@10", MeanOfColumn(r.recall, 10)),
        "AR@100", MeanOfColumn(r.recall, 99))

ARANResults(eval_results, r) ==
    DictSet(DictSet(DictSet(DictSet(DictSet(eval_results,
        "auc", r.auc),
        "AR@1", MeanOfColumn(r.recall, 0)),
        "AR@5", MeanOfColumn(r.recall, 4)),
        "AR@10", MeanOfColumn(r.recall, 9)),
        "AR@100", MeanOfColumn(r.recall, 99))

RECURSIVE EvaluateLoop(_, _, _, _, _, _, _)
EvaluateLoop(todo, eval_results, ground_truth, proposal, num_proposals, max_avg_proposals, temporal_iou_thresholds) ==
    IF todo = <<>> THEN [status |-> "ok", value |-> eval_results]
    ELSE IF todo[1] = METRIC_AR_AN
         THEN LET r == average_recall_at_avg_proposals(
                          ground_truth, proposal, num_proposals,
                          max_avg_proposals, temporal_iou_thresholds)
              IN IF \A c \in {0, 4, 9, 99} : HasColumn(r.recall, c)
                 THEN EvaluateLoop(Tail(todo), ARANResults(eval_results, r),
                                   ground_truth, proposal, num_proposals,
                                   max_avg_proposals, temporal_iou_thresholds)
                 ELSE [status |-> "IndexError", value |-> <<>>]
         ELSE EvaluateLoop(Tail(todo), eval_results, ground_truth, proposal,
                           num_proposals, max_avg_proposals, temporal_iou_thresholds)

(* _evaluate refusing ground truth and proposals with different keys. *)
_evaluate_same_keys(recs, results, metrics, max_avg_proposals, temporal_iou_thresholds) ==
    LET ground_truth == _import_ground_truth(recs)
        imported == _import_proposals(results)
    IN IF DictKeys(ground_truth) # DictKeys(imported[1])
       THEN [status |-> "KeyError", value |-> <<>>]
       ELSE EvaluateLoop(IterateMetrics(metrics), <<>>, ground_truth,
                         imported[1], imported[2],
                         max_avg_proposals, temporal_iou_thresholds)

_evaluate(recs, results, metrics, max_avg_proposals, temporal_iou_thresholds) ==
    LET ground_truth == _import_ground_truth(recs)
        imported == _import_proposals(results)
    IN EvaluateLoop(IterateMetrics(metrics), <<>>, ground_truth,
                    imported[1], imported[2],
                    max_avg_proposals, temporal_iou_thresholds)

----------------------------------------------------------------------------
(* ActivityNetDataset.dump_results and the files it writes.                *)
(* A file system is [dirs, files]; files is a dict from                    *)
(* [dir, base] to the text written.                                        *)

(* json.dump of the output dict: an object is its members in order. *)
JsonOfProposal(p) ==
    [type |-> "object",
     members |-> << <<"segment", [type |-> "array",
                                  items |-> [i \in DOMAIN p.segment |->
                                               [type |-> "number", v |-> p.segment[i]]]]>>,
                    <<"score", [type |-> "number", v |-> p.score]>> >>]

JsonOfProposalList(plist) ==
    [type |-> "array", items |-> [i \in DOMAIN plist |-> JsonOfProposal(plist[i])]]

JsonOfResultDict(result_dict) ==
    [type |-> "object",
     members |-> [i \in DOMAIN result_dict |->
                    <<result_dict[i][1], JsonOfProposalList(result_dict[i][2])>>]]

JsonDump(output_dict) ==
    [type |-> "object",
     members |-> << <<"version", [type |-> "string", s |-> output_dict.version]>>,
                    <<"results", JsonOfResultDict(output_dict.results)>>,
                    <<"external_data", [type |-> "object", members |-> <<>>]>> >>]

(* json.load: an object becomes a dict (a repeated key keeps its last      *)
(* value), an array a list, a number a number.                             *)
JsonMember(obj, key) == DictGet(obj.members, key)

ProposalOfJson(j) ==
    [segment |-> [i \in DOMAIN JsonMember(j, "segment").items |->
                    JsonMember(j, "segment").items[i].v],
     score |-> JsonMember(j, "score").v]

ProposalListOfJson(j) == [i \in DOMAIN j.items |-> ProposalOfJson(j.items[i])]

RECURSIVE ResultDictOfMembers(_, _)
ResultDictOfMembers(members, d) ==
    IF members = <<>> THEN d
    ELSE ResultDictOfMembers(Tail(members),
                             DictSet(d, members[1][1], ProposalListOfJson(members[1][2])))

JsonLoad(text) ==
    [version |-> JsonMember(text, "version").s,
     results |-> ResultDictOfMembers(JsonMember(text, "results").members, <<>>),
     external_data |-> <<>>]

JsonPath(out) == [dir |-> out, base |-> <<>>]

CsvPath(out, video_name) == [dir |-> out, base |-> video_name \o <<".csv">>]

CSV_HEADER == "action,start,end,tmin,tmax"

(* np.savetxt(path, outputs, header=..., delimiter=',', comments=''). *)
CsvText(outputs) == [type |-> "csv", header |-> CSV_HEADER, rows |-> outputs]

RECURSIVE SaveCsvFiles(_, _, _)
SaveCsvFiles(results, out, files) ==
    IF results = <<>> THEN files
    ELSE SaveCsvFiles(Tail(results), out,
                      DictSet(files, CsvPath(out, results[1][1]), CsvText(results[1][2])))

OutputFormats == {"json", "csv", "pkl", "JSON", ""}

(* dump_results whose last branch is the csv branch's fall-through: it     *)
(* makes the directory and raises nothing.                                 *)
dump_results_ignoring(fsys, results, out, output_format, version) ==
    IF output_format = "json"
    THEN [status |-> "ok",
          fs |-> [fsys EXCEPT !.files =
                     DictSet(@, JsonPath(out),
                             JsonDump([version |-> version,
                                       results |-> proposals2json(results),
                                       external_data |-> <<>>]))]]
    ELSE [status |-> "ok",
          fs |-> [dirs |-> fsys.dirs \cup {out},
                  files |-> IF output_format = "csv"
                            THEN SaveCsvFiles(results, out, fsys.files)
                            ELSE fsys.files]]

dump_results(fsys, results, out, output_format, version) ==
    IF output_format = "json"
    THEN [status |-> "ok",
          fs |-> [fsys EXCEPT !.files =
                     DictSet(@, JsonPath(out),
                             JsonDump([version |-> version,
                                       results |-> proposals2json(results),
                                       external_data |-> <<>>]))]]
    ELSE IF output_format = "csv"
         THEN [status |-> "ok",
               fs |-> [dirs |-> fsys.dirs \cup {out},
                       files |-> SaveCsvFiles(results, out, fsys.files)]]
         ELSE [status |-> "ValueError", fs |-> fsys]

----------------------------------------------------------------------------
(* State machine.  records is the dataset built at construction; fs the    *)
(* file system dump_results writes to; call the last call made on the      *)
(* dataset, with its arguments and its outcome; pipeline the dataset's     *)
(* self.pipeline; training the mode flag of the VideoAligner module.       *)

NoCall == [op |-> "none"]

EmptyFs == [dirs |-> {}, files |-> <<>>]

TkIdle == [op |-> "none"]

HookIdle == [phase |-> "off"]

(* A pipeline of no transforms. *)
NoPipeline == <<>>

(* The csv branch takes results as (video_name, outputs) pairs. *)
AsCsvResults(results) ==
    [i \in DOMAIN results |->
        <<results[i].video_name, ProposalRows(results[i].proposal_list)>>]

OutPaths == {"out"}

VERSION == "VERSION 1.3"

DumpResults ==
    /\ call.op = "none"
    /\ \E results \in ResultLists, out \in OutPaths, output_format \in OutputFormats :
          LET arg == IF output_format = "csv" THEN AsCsvResults(results) ELSE results
              r == dump_results(fs, arg, out, output_format, VERSION)
          IN /\ fs' = r.fs
             /\ call' = [op |-> "dump_results", results |-> results, out |-> out,
                         output_format |-> output_format, status |-> r.status,
                         before |-> fs]
    /\ UNCHANGED <<records, tk, hook, pipeline, training>>

(* mmcv.load(out) of a file written by the json branch. *)
ReloadDump ==
    /\ call.op = "dump_results"
    /\ call.status = "ok"
    /\ call.output_format = "json"
    /\ call' = [op |-> "reload", results |-> call.results, out |-> call.out,
                loaded |-> JsonLoad(DictGet(fs.files, JsonPath(call.out)))]
    /\ UNCHANGED <<records, fs, tk, hook, pipeline, training>>

(* The file system a dump finds: empty, or holding an earlier dump. *)
InitialFileSystems ==
    { EmptyFs,
      [dirs |-> {"out"}, files |-> <<>>],
      dump_results(EmptyFs, <<[video_name |-> Name_v_b, proposal_list |-> <<>>]>>,
                   "out", "json", VERSION).fs }

Init ==
    /\ records = <<>>
    /\ fs \in InitialFileSystems
    /\ call = NoCall /\ tk = TkIdle /\ hook = HookIdle
    /\ pipeline = NoPipeline /\ training = TRUE

Next == DumpResults \/ ReloadDump

Spec == Init /\ [][Next]_vars

----------------------------------------------------------------------------
(* Evaluation runs.                                                        *)

MetricsArgs ==
    << MetricsStr(METRIC_AR_AN),
       MetricsSeq(<<METRIC_AR_AN>>),
       MetricsSeq(<<METRIC_MAP>>),
       MetricsSeq(<<METRIC_AR_AN, METRIC_MAP>>),
       MetricsSeq(<<METRIC_MAP, METRIC_AR_AN>>),
       MetricsSeq(<<>>) >>

MaxAvgChoices == {20, 100, 200}

(* Results of the videos of the dataset, one entry per video at most. *)
DatasetResultLists ==
    { r \in SeqsUpTo([video_name : Range(RecordNames), proposal_list : ProposalLists],
                     MaxResults) :
        \A i, j \in DOMAIN r :
            i < j => \E a, b \in DOMAIN RecordNames :
                        a < b /\ r[i].video_name = RecordNames[a]
                              /\ r[j].video_name = RecordNames[b] }

EvaluateWith(resultSet, metricIndexes, maxAvgSet) ==
    \E results \in resultSet, mi \in metricIndexes, max_avg_proposals \in maxAvgSet :
        /\ call.op = "none"
        /\ call' = [op |-> "_evaluate", results |-> results,
                    metrics |-> MetricsArgs[mi],
                    max_avg_proposals |-> max_avg_proposals,
                    out |-> _evaluate(records, results, MetricsArgs[mi],
                                      max_avg_proposals, EvalThresholds)]
        /\ UNCHANGED <<records, fs, tk, hook, pipeline, training>>

InitEval ==
    /\ records \in RecordLists
    /\ fs = EmptyFs
    /\ call = NoCall /\ tk = TkIdle /\ hook = HookIdle
    /\ pipeline = NoPipeline /\ training = TRUE

(* Any metrics argument, results of at most one video. *)
EvaluateMetrics ==
    EvaluateWith({r \in ResultLists : Len(r) <= 1}, DOMAIN MetricsArgs, {1, 100})

SpecMetrics == InitEval /\ [][EvaluateMetrics]_vars

(* metrics = ['AR@AN'], any results and budget. *)
EvaluateRecall == EvaluateWith(DatasetResultLists, {2}, MaxAvgChoices)

SpecRecall == InitEval /\ [][EvaluateRecall]_vars

----------------------------------------------------------------------------
(* Properties of dump_results (specification Spec).                        *)

SupportedFormats == {"json", "csv"}

VideoIdsOf(results) == {PySliceFrom(results[i].video_name, 2) : i \in DOMAIN results}

(* C2: dump_results with an output_format other than 'json' and 'csv'      *)
(* raises ValueError and leaves the file system as it found it: no file    *)
(* written, no directory made.                                             *)
C2_UnsupportedFormatRaises ==
    (call.op = "dump_results" /\ call.output_format \notin SupportedFormats)
        => (call.status = "ValueError" /\ fs = call.before)

C2_Witness ==
    /\ call.op = "dump_results"
    /\ call.output_format = "pkl"
    /\ call.results # <<>>
    /\ call.status = "ValueError"
    /\ call.before.files # <<>>
    /\ fs = call.before

----------------------------------------------------------------------------
(* Properties of the metric dispatch of _evaluate (SpecMetrics).           *)

IsEvaluate == call.op = "_evaluate"

ARANKeys == {"auc", "AR@1", "AR@5", "AR@10", "AR@100"}

(* C1: _evaluate fails on a metrics sequence that holds a name outside     *)
(* allowed_metrics.                                                        *)
C1_UnsupportedMetricFails ==
    (/\ IsEvaluate
     /\ call.metrics.kind = "seq"
     /\ \E i \in DOMAIN call.metrics.items :
            call.metrics.items[i] \notin Range(allowed_metrics))
        => call.out.status # "ok"

(* C3: _evaluate called with the metric name as a str returns what it      *)
(* returns for the one-element sequence of that name.                      *)
C3_StrLikeSequence ==
    (IsEvaluate /\ call.metrics.kind = "str")
        => call.out = _evaluate(records, call.results,
                                MetricsSeq(<<call.metrics.chars>>),
                                call.max_avg_proposals, EvalThresholds)

(* C10: with 'AR@AN' among the metrics, _evaluate returns exactly the keys *)
(* auc, AR@1, AR@5, AR@10, AR@100, and AR@k is the mean over the           *)
(* thresholds of column k-1 of the recall matrix; it does not fail.        *)
RecallOfCall ==
    LET imported == _import_proposals(call.results)
    IN average_recall_at_avg_proposals(_import_ground_truth(records), imported[1],
                                       imported[2], call.max_avg_proposals,
                                       EvalThresholds)

----------------------------------------------------------------------------
(* Properties of the AR@AN evaluation (SpecRecall).                        *)

RecordIds == VideoIdsOf(records)

OutValue(key) == DictGet(call.out.value, key)

ARKeys == {"AR@1", "AR@5", "AR@10", "AR@100"}

RECURSIVE CountAnnotations(_)
CountAnnotations(recs) ==
    IF recs = <<>> THEN 0
    ELSE Len(recs[1].annotations) + CountAnnotations(Tail(recs))

EvaluateAgain(recs, results, max_avg_proposals) ==
    _evaluate(recs, results, call.metrics, max_avg_proposals, EvalThresholds)

(* C5: when the video ids of the ground truth and of the proposals differ, *)
(* _evaluate still returns the AR@AN mapping; a video on one side only     *)
(* matches nothing: the matches are those of the videos on both sides, and *)
(* every ground-truth segment is counted.                                  *)
C5_MismatchedKeysNoError ==
    (IsEvaluate /\ RecordIds # VideoIdsOf(call.results)) =>
        LET common == RecordIds \cap VideoIdsOf(call.results)
            OnBoth(e) == PySliceFrom(e.video_name, 2) \in common
            both == EvaluateAgain(SelectSeq(records, OnBoth),
                                  SelectSeq(call.results, OnBoth),
                                  call.max_avg_proposals)
        IN /\ call.out.status = "ok"
           /\ DictKeys(call.out.value) = ARANKeys
           /\ \A k \in ARKeys :
                 /\ OutValue(k).num = DictGet(both.value, k).num
                 /\ OutValue(k).den = Len(EvalThresholds) * CountAnnotations(records)

C5_Witness ==
    /\ IsEvaluate
    /\ RecordIds = {<<"a">>, <<"b">>}
    /\ VideoIdsOf(call.results) = {<<"a">>}
    /\ \A i \in DOMAIN records : records[i].annotations # <<>>
    /\ call.out.status = "ok"
    /\ OutValue("AR@100").num > 0
    /\ OutValue("AR@100").num < OutValue("AR@100").den

(* C6: a record with no annotations does not make the evaluation fail and  *)
(* changes nothing in its result: the mapping is the one obtained from the *)
(* records that have annotations.                                          *)
C6_EmptyGroundTruth ==
    (IsEvaluate /\ \E i \in DOMAIN records : records[i].annotations = <<>>) =>
        LET Annotated(r) == r.annotations # <<>>
        IN /\ call.out.status = "ok"
           /\ call.out = EvaluateAgain(SelectSeq(records, Annotated), call.results,
                                       call.max_avg_proposals)

C6_Witness ==
    /\ IsEvaluate
    /\ Len(records) = 2
    /\ records[1].annotations # <<>>
    /\ records[2].annotations = <<>>
    /\ Len(call.results) = 2
    /\ call.results[2].proposal_list # <<>>
    /\ call.out.status = "ok"
    /\ OutValue("AR@100").num > 0

(* C7: the recall grows with the proposal budget: along the columns of one *)
(* recall matrix, hence AR@1 <= AR@5 <= AR@10 <= AR@100, and from one      *)
(* max_avg_proposals to a larger one.                                      *)
NoMore(a, b) == a.num <= b.num /\ a.den = b.den

C7_RecallMonotone ==
    (IsEvaluate /\ call.out.status = "ok") =>
        /\ NoMore(OutValue("AR@1"), OutValue("AR@5"))
        /\ NoMore(OutValue("AR@5"), OutValue("AR@10"))
        /\ NoMore(OutValue("AR@10"), OutValue("AR@100"))
        /\ LET recall == RecallOfCall.recall
           IN \A t \in DOMAIN recall :
                 \A j \in 1..(NumBudgets - 1) : NoMore(recall[t][j], recall[t][j + 1])
        /\ \A m \in MaxAvgChoices :
              m >= call.max_avg_proposals =>
                  LET more == EvaluateAgain(records, call.results, m)
                  IN /\ more.status = "ok"
                     /\ \A k \in ARKeys : NoMore(OutValue(k), DictGet(more.value, k))

C7_Witness ==
    /\ IsEvaluate
    /\ call.max_avg_proposals = 20
    /\ call.out.status = "ok"
    /\ OutValue("AR@1").num = 0
    /\ OutValue("AR@5").num > 0
    /\ OutValue("AR@5").num < OutValue("AR@10").num
    /\ LET more == EvaluateAgain(records, call.results, 100)
       IN /\ DictGet(more.value, "AR@1").num > 0
          /\ DictGet(more.value, "AR@1").num < DictGet(more.value, "AR@5").num

----------------------------------------------------------------------------
(* mmaction/core/evaluation: top_k_accuracy.                               *)
(* scores[i][c + 1] is the score of class c for sample i, labels[i] the    *)
(* class of sample i, topk the tuple of k.                                 *)

NumClasses == 3

MaxSamples == 1

ScoreValues == {0, 1}

Classes == 0..(NumClasses - 1)

(* Classes by ascending score; equal scores keep the class order. *)
RECURSIVE InsertAscending(_, _, _)
InsertAscending(sorted, row, c) ==
    IF sorted = <<>> THEN <<c>>
    ELSE IF row[sorted[1] + 1] <= row[c + 1]
         THEN <<sorted[1]>> \o InsertAscending(Tail(sorted), row, c)
         ELSE <<c>> \o sorted

RECURSIVE ArgSortUpTo(_, _)
ArgSortUpTo(row, n) ==
    IF n = 0 THEN <<>> ELSE InsertAscending(ArgSortUpTo(row, n - 1), row, n - 1)

ArgSort(row) == ArgSortUpTo(row, Len(row))

(* The k - 1 highest-scoring classes. *)
HighestButOne(row, k) ==
    LET order == ArgSort(row)
    IN {order[i] : i \in (Len(order) - Min(k - 1, Len(order)) + 1)..Len(order)}

(* The k highest-scoring classes. *)
Highest(row, k) ==
    LET order == ArgSort(row)
    IN {order[i] : i \in (Len(order) - Min(k, Len(order)) + 1)..Len(order)}

TopKHits(scores, labels, k) ==
    Cardinality({i \in DOMAIN scores : labels[i] \in Highest(scores[i], k)})

top_k_accuracy(scores, labels, topk) ==
    [n \in DOMAIN topk |->
        [num |-> TopKHits(scores, labels, topk[n]), den |-> Len(scores)]]

ScoreRows == [1..NumClasses -> ScoreValues]

TopKChoices ==
    {<<k>> : k \in 1..(NumClasses + 1)} \cup {<<1, k>> : k \in 1..(NumClasses + 1)}

TopKAccuracy ==
    /\ tk.op = "none"
    /\ \E n \in 1..MaxSamples :
         \E scores \in [1..n -> ScoreRows], labels \in [1..n -> Classes],
            topk \in TopKChoices :
             tk' = [op |-> "top_k_accuracy", scores |-> scores, labels |-> labels,
                    topk |-> topk, out |-> top_k_accuracy(scores, labels, topk)]
    /\ UNCHANGED <<records, fs, call, hook, pipeline, training>>

InitTopK ==
    /\ records = <<>>
    /\ fs = EmptyFs
    /\ call = NoCall /\ tk = TkIdle /\ hook = HookIdle
    /\ pipeline = NoPipeline /\ training = TRUE

SpecTopK == InitTopK /\ [][TopKAccuracy]_vars

(* C8: with k the number of classes, top_k_accuracy is 1.0 for every score *)
(* matrix and every vector of valid labels, tied scores included.          *)
C8_TopAllIsOne ==
    tk.op = "top_k_accuracy" =>
        \A n \in DOMAIN tk.topk :
            tk.topk[n] = NumClasses =>
                (tk.out[n].num = tk.out[n].den /\ tk.out[n].den > 0)

C8_Witness ==
    /\ tk.op = "top_k_accuracy"
    /\ tk.topk = <<1, NumClasses>>
    /\ \A c \in Classes : tk.scores[1][c + 1] = 1
    /\ tk.labels[1] = 0
    /\ tk.out[1].num = 0
    /\ tk.out[2].num = tk.out[2].den

----------------------------------------------------------------------------
(* mmaction/core/evaluation: DistEvalHook in a run of NumWorkers workers.  *)
(* Each worker trains an epoch, then runs the hook: at a multiple of the   *)
(* interval it infers its share of the held-out set and hands it over; the *)
(* designated worker waits for every share, evaluates and logs.            *)

NumWorkers == 2

MaxEpochs == 3

Workers == 0..(NumWorkers - 1)

Intervals == {1, 2}

EveryWorkerDesignated(w) == TRUE

(* The worker of rank 0 is the designated one. *)
IsDesignated(w) == w = 0

(* every_n_epochs(runner, interval) *)
EveryNEpochs(epoch, interval) == epoch % interval = 0

InitHook ==
    /\ records = <<>>
    /\ fs = EmptyFs
    /\ call = NoCall /\ tk = TkIdle
    /\ pipeline = NoPipeline /\ training = TRUE
    /\ \E interval \in Intervals :
         hook = [phase |-> "run",
                 interval |-> interval,
                 epoch |-> [w \in Workers |-> 0],
                 pc |-> [w \in Workers |-> "train"],
                 inferred |-> {},
                 gathered |-> {},
                 evals |-> <<>>,
                 log |-> <<>>]

HookRest == UNCHANGED <<records, fs, call, tk, pipeline, training>>

(* One epoch of training; the workers advance in step. *)
TrainEpoch(w) ==
    /\ hook.pc[w] = "train"
    /\ hook.epoch[w] < MaxEpochs
    /\ \A v \in Workers : hook.epoch[v] > hook.epoch[w] \/ hook.pc[v] = "train"
    /\ hook' = [hook EXCEPT !.epoch[w] = @ + 1, !.pc[w] = "after_train_epoch"]
    /\ HookRest

(* after_train_epoch: nothing to do unless the interval has elapsed. *)
AfterTrainEpoch(w) ==
    /\ hook.pc[w] = "after_train_epoch"
    /\ hook' = [hook EXCEPT !.pc[w] =
                   IF EveryNEpochs(hook.epoch[w], hook.interval)
                   THEN "infer" ELSE "train"]
    /\ HookRest

(* The worker's share of the inference over the held-out set. *)
Infer(w) ==
    /\ hook.pc[w] = "infer"
    /\ hook' = [hook EXCEPT !.inferred = @ \cup {<<w, hook.epoch[w]>>},
                            !.pc[w] = "collect"]
    /\ HookRest

(* Every worker hands its share over and waits for the others. *)
HandOver(w) ==
    /\ hook.pc[w] = "collect"
    /\ hook' = [hook EXCEPT !.gathered = @ \cup {<<w, hook.epoch[w]>>},
                            !.pc[w] = "barrier"]
    /\ HookRest

(* Past the barrier the designated worker holds every share and goes on to *)
(* evaluate; the others hold nothing and return.                           *)
PassBarrier(w) ==
    /\ hook.pc[w] = "barrier"
    /\ \A v \in Workers : <<v, hook.epoch[w]>> \in hook.gathered
    /\ hook' = [hook EXCEPT !.pc[w] = IF IsDesignated(w) THEN "evaluate" ELSE "train"]
    /\ HookRest

(* dataset.evaluate on the gathered results, and its metrics into the log. *)
EvaluateAndLog(w) ==
    /\ hook.pc[w] = "evaluate"
    /\ hook' = [hook EXCEPT
                   !.evals = Append(@, [rank |-> w, epoch |-> hook.epoch[w],
                                        shares |-> {v \in Workers :
                                            <<v, hook.epoch[w]>>
                                                \in hook.gathered \cap hook.inferred}]),
                   !.log = Append(@, [rank |-> w, epoch |-> hook.epoch[w]]),
                   !.pc[w] = "train"]
    /\ HookRest

NextHook ==
    \E w \in Workers :
        \/ TrainEpoch(w)
        \/ AfterTrainEpoch(w)
        \/ Infer(w)
        \/ HandOver(w)
        \/ PassBarrier(w)
        \/ EvaluateAndLog(w)

SpecHook == InitHook /\ [][NextHook]_vars

(* C9: only the designated worker evaluates and logs, it does so with the  *)
(* share of every worker, only at multiples of the interval, and once at   *)
(* each of them.                                                           *)
C9_OneWorkerEvaluates ==
    hook.phase = "run" =>
        /\ \A i \in DOMAIN hook.evals :
              /\ hook.evals[i].rank = 0
              /\ hook.evals[i].shares = Workers
              /\ hook.evals[i].epoch > 0
              /\ hook.evals[i].epoch % hook.interval = 0
              /\ \A j \in DOMAIN hook.evals :
                    i < j => hook.evals[i].epoch < hook.evals[j].epoch
        /\ Len(hook.log) = Len(hook.evals)
        /\ \A i \in DOMAIN hook.log :
              /\ hook.log[i].rank = hook.evals[i].rank
              /\ hook.log[i].epoch = hook.evals[i].epoch
        /\ \A w \in Workers : hook.pc[w] = "evaluate" => w = 0
        /\ \A e \in 1..hook.epoch[0] :
              (e % hook.interval = 0 /\ (e < hook.epoch[0] \/ hook.pc[0] = "train"))
                  => \E i \in DOMAIN hook.evals : hook.evals[i].epoch = e

C9_Witness ==
    /\ hook.phase = "run"
    /\ hook.interval = 2
    /\ \A w \in Workers : hook.epoch[w] = 3 /\ hook.pc[w] = "train"
    /\ Len(hook.evals) = 1
    /\ hook.evals[1] = [rank |-> 0, epoch |-> 2, shares |-> Workers]
    /\ hook.log = <<[rank |-> 0, epoch |-> 2]>>


----------------------------------------------------------------------------
(* _import_proposals called on inference outputs (specification            *)
(* SpecProposals).                                                         *)

ImportProposals ==
    /\ call.op = "none"
    /\ \E results \in ResultLists :
          LET r == _import_proposals(results)
          IN call' = [op |-> "_import_proposals", results |-> results,
                      proposals |-> r[1], num_proposals |-> r[2]]
    /\ UNCHANGED <<records, fs, tk, hook, pipeline, training>>

InitProposals ==
    /\ records = <<>>
    /\ fs = EmptyFs
    /\ call = NoCall /\ tk = TkIdle /\ hook = HookIdle
    /\ pipeline = NoPipeline /\ training = TRUE

SpecProposals == InitProposals /\ [][ImportProposals]_vars

(* The number of [start, end, score] rows held in a proposal mapping. *)
RowsHeld(proposals) ==
    SumSeq([i \in DOMAIN proposals |-> Len(proposals[i][2])])

(* C11: the count _import_proposals returns is the number of rows held in  *)
(* the mapping it returns, and each result's video id (video_name without  *)
(* its first two characters) maps to that result's proposals as rows in    *)
(* their original order.                                                   *)
C11_CountIsTotalOfMapping ==
    call.op = "_import_proposals" =>
        /\ call.num_proposals = RowsHeld(call.proposals)
        /\ \A i \in DOMAIN call.results :
              LET video_id == PySliceFrom(call.results[i].video_name, 2)
              IN /\ DictHas(call.proposals, video_id)
                 /\ DictGet(call.proposals, video_id)
                        = ProposalRows(call.results[i].proposal_list)


----------------------------------------------------------------------------
(* Index-based retrieval (specification SpecRetrieval).  The annotation    *)
(* file is a file of fs; records is what _load_annotations built from it.  *)
(* A dict and the list it holds are objects with an identity: <<i>> names  *)
(* the dict of self.records[i] and its annotations list, <<>> an object    *)
(* no record holds.  pipeline is the dataset's self.pipeline.               *)

MaxTransforms == 2

ANN_FILE == [dir |-> "data", base |-> <<"anno.json">>]

(* The annotation file: video name -> dict(annotations=[...]). *)
AnnoDatabases ==
    { [i \in DOMAIN r |-> <<r[i].video_name, [annotations |-> r[i].annotations]>>] :
        r \in RecordLists }

_load_annotations(anno_database) ==
    [i \in DOMAIN anno_database |->
        [video_name |-> anno_database[i][1],
         annotations |-> anno_database[i][2].annotations]]

(* self.records[idx], idx counted from 0, or from the end when negative. *)
PyIndex(recs, idx) == IF idx < 0 THEN idx + Len(recs) ELSE idx

InRange(recs, idx) == PyIndex(recs, idx) \in 0..(Len(recs) - 1)

RecordObject(recs, idx) ==
    [dict |-> <<PyIndex(recs, idx)>>, list |-> <<PyIndex(recs, idx)>>,
     value |-> recs[PyIndex(recs, idx) + 1]]

(* copy.copy: a new dict that holds the same annotations list. *)
shallow_copy(obj) == [dict |-> <<>>, list |-> obj.list, value |-> obj.value]

(* copy.deepcopy: a new dict holding a new annotations list. *)
deepcopy(obj) == [dict |-> <<>>, list |-> <<>>, value |-> obj.value]

(* What a transform of the pipeline does to the dict it receives. *)
Transforms == {"keep", "rename", "drop", "clear", "append"}

Pipelines == SeqsUpTo(Transforms, MaxTransforms)

(* The records after a store into the dict, or into the list, named ref. *)
StoreDict(recs, ref, value) ==
    IF ref = <<>> THEN recs ELSE [recs EXCEPT ![ref[1] + 1] = value]

StoreList(recs, ref, anns) ==
    IF ref = <<>> THEN recs ELSE [recs EXCEPT ![ref[1] + 1].annotations = anns]

(* results['video_name'] = ...; results['annotations'] = [];               *)
(* results['annotations'].clear(); results['annotations'].append(...).     *)
ApplyTransform(recs, obj, t) ==
    CASE t = "rename" ->
            LET v == [obj.value EXCEPT !.video_name = Name_w_a]
            IN [records |-> StoreDict(recs, obj.dict, v),
                obj |-> [obj EXCEPT !.value = v]]
      [] t = "drop" ->
            LET v == [obj.value EXCEPT !.annotations = <<>>]
            IN [records |-> StoreDict(recs, obj.dict, v),
                obj |-> [dict |-> obj.dict, list |-> <<>>, value |-> v]]
      [] t = "clear" ->
            [records |-> StoreList(recs, obj.list, <<>>),
             obj |-> [obj EXCEPT !.value.annotations = <<>>]]
      [] t = "append" ->
            LET anns == Append(obj.value.annotations,
                               [segment |-> <<0, 6>>, label |-> "jump"])
            IN [records |-> StoreList(recs, obj.list, anns),
                obj |-> [obj EXCEPT !.value.annotations = anns]]
      [] OTHER -> [records |-> recs, obj |-> obj]

RECURSIVE RunPipeline(_, _, _)
RunPipeline(recs, obj, transforms) ==
    IF transforms = <<>> THEN [records |-> recs, results |-> obj.value]
    ELSE LET r == ApplyTransform(recs, obj, transforms[1])
         IN RunPipeline(r.records, r.obj, Tail(transforms))

prepare_test_frames(recs, idx, transforms) ==
    IF ~InRange(recs, idx)
    THEN [status |-> "IndexError", records |-> recs, results |-> <<>>]
    ELSE LET r == RunPipeline(recs, deepcopy(RecordObject(recs, idx)), transforms)
         IN [status |-> "ok", records |-> r.records, results |-> r.results]

prepare_train_frames(recs, idx, transforms) ==
    IF ~InRange(recs, idx)
    THEN [status |-> "IndexError", records |-> recs, results |-> <<>>]
    ELSE LET r == RunPipeline(recs, deepcopy(RecordObject(recs, idx)), transforms)
         IN [status |-> "ok", records |-> r.records, results |-> r.results]

__len__(recs) == Len(recs)

Indexes == (-1)..MaxRecords

PrepareTestFrames ==
    \E idx \in Indexes :
        LET r == prepare_test_frames(records, idx, pipeline)
        IN /\ records' = r.records
           /\ call' = [op |-> "prepare_test_frames", idx |-> idx,
                       status |-> r.status, results |-> r.results]
           /\ UNCHANGED <<fs, tk, hook, pipeline, training>>

PrepareTrainFrames ==
    \E idx \in Indexes :
        LET r == prepare_train_frames(records, idx, pipeline)
        IN /\ records' = r.records
           /\ call' = [op |-> "prepare_train_frames", idx |-> idx,
                       status |-> r.status, results |-> r.results]
           /\ UNCHANGED <<fs, tk, hook, pipeline, training>>

DatasetLen ==
    /\ call' = [op |-> "__len__", out |-> __len__(records)]
    /\ UNCHANGED <<records, fs, tk, hook, pipeline, training>>

ImportGroundTruth ==
    /\ call' = [op |-> "_import_ground_truth", out |-> _import_ground_truth(records)]
    /\ UNCHANGED <<records, fs, tk, hook, pipeline, training>>

InitRetrieval ==
    /\ \E anno_database \in AnnoDatabases :
          /\ fs = [dirs |-> {"data"}, files |-> << <<ANN_FILE, anno_database>> >>]
          /\ records = _load_annotations(anno_database)
    /\ pipeline \in Pipelines
    /\ call = NoCall /\ tk = TkIdle /\ hook = HookIdle
    /\ training = TRUE

NextRetrieval ==
    PrepareTestFrames \/ PrepareTrainFrames \/ DatasetLen \/ ImportGroundTruth

SpecRetrieval == InitRetrieval /\ [][NextRetrieval]_vars

(* The records as they were loaded from the annotation file. *)
RecordsAsLoaded == _load_annotations(DictGet(fs.files, ANN_FILE))

IsRetrieval == call.op \in {"prepare_test_frames", "prepare_train_frames"}

(* C12: after any sequence of prepare_train_frames and prepare_test_frames *)
(* calls, with any pipeline mutating the dict it receives, self.records    *)
(* is what was loaded, len(dataset) is the length it had, and              *)
(* _import_ground_truth returns the mapping of the loaded records.         *)
C12_RetrievalKeepsRecords ==
    /\ records = RecordsAsLoaded
    /\ call.op = "__len__" => call.out = Len(RecordsAsLoaded)
    /\ call.op = "_import_ground_truth" =>
           call.out = _import_ground_truth(RecordsAsLoaded)

(* A retrieval whose pipeline changed the annotations list it was given. *)
C12_Witness ==
    /\ IsRetrieval
    /\ call.status = "ok"
    /\ \E k \in DOMAIN pipeline : pipeline[k] \in {"clear", "append"}
    /\ call.results.annotations
           # records[PyIndex(records, call.idx) + 1].annotations
    /\ records = RecordsAsLoaded


----------------------------------------------------------------------------
(* VideoAligner (mmaction/models/necks/video_aligner.py), specification    *)
(* SpecAligner.  A tensor is its shape <<N, C, T, H, W>> and the chain of  *)
(* operations that produced its data from an input.                        *)

MaxBatch == 2

in_channels == 4

spatial_size == 7

temporal_size == 1

embd_size == 256

None == [kind |-> "None"]

(* Feature maps of in_channels channels, at least spatial_size wide. *)
Inputs ==
    { [shape |-> <<n, in_channels, t, h, h>>, data |-> <<d>>] :
        n \in 1..MaxBatch, t \in {1, 2},
        h \in {spatial_size, spatial_size + 1}, d \in {"p", "q"} }

(* nn.AvgPool3d((1,) + spatial_size, stride=1, padding=0). *)
spatial_pool(x) ==
    [shape |-> <<x.shape[1], x.shape[2], x.shape[3],
                 x.shape[4] - spatial_size + 1, x.shape[5] - spatial_size + 1>>,
     data |-> Append(x.data, "spatial_pool")]

(* conv_1x1x1_bn(in_channels, hidden_size), HSwish(),                      *)
(* conv_1x1x1_bn(hidden_size, embd_size).                                  *)
mapper(y) ==
    [shape |-> <<y.shape[1], embd_size, y.shape[3], y.shape[4], y.shape[5]>>,
     data |-> Append(y.data, "mapper")]

normalize(y, dim) == [shape |-> y.shape, data |-> Append(y.data, "normalize")]

(* forward with the test on self.training the other way round. *)
forward_when_training(self_training, x, return_extra_data) ==
    LET temporal_embd ==
            IF self_training THEN normalize(mapper(spatial_pool(x)), 1) ELSE None
    IN IF return_extra_data
       THEN <<x, << <<"temporal_embd", temporal_embd>> >> >>
       ELSE x

forward(self_training, x, return_extra_data) ==
    LET temporal_embd ==
            IF ~self_training THEN normalize(mapper(spatial_pool(x)), 1) ELSE None
    IN IF return_extra_data
       THEN <<x, << <<"temporal_embd", temporal_embd>> >> >>
       ELSE x

RECURSIVE Numel(_)
Numel(shape) == IF shape = <<>> THEN 1 ELSE shape[1] * Numel(Tail(shape))

(* temporal_embd.view(-1, self.embd_size, self.temporal_size). *)
ViewFits(t) == Numel(t.shape) % (embd_size * temporal_size) = 0

loss(temporal_embd, labels, dataset_id) ==
    IF temporal_embd = None \/ labels = None \/ dataset_id = None
    THEN [status |-> "ok", value |-> <<>>]
    ELSE IF ~ViewFits(temporal_embd)
         THEN [status |-> "RuntimeError", value |-> <<>>]
         ELSE [status |-> "ok", value |-> <<>>]

LabelArgs == {None, [shape |-> <<1>>, data |-> <<"labels">>]}

DatasetIdArgs == {None, [shape |-> <<1>>, data |-> <<"dataset_id">>]}

AlignerRest == UNCHANGED <<records, fs, tk, hook, pipeline>>

(* nn.Module.train() and nn.Module.eval(). *)
SetTrain ==
    /\ training' = TRUE
    /\ call' = [op |-> "train"]
    /\ AlignerRest

SetEval ==
    /\ training' = FALSE
    /\ call' = [op |-> "eval"]
    /\ AlignerRest

Forward ==
    \E x \in Inputs, return_extra_data \in BOOLEAN :
        /\ call' = [op |-> "forward", x |-> x,
                    return_extra_data |-> return_extra_data,
                    training |-> training,
                    out |-> forward(training, x, return_extra_data)]
        /\ UNCHANGED training
        /\ AlignerRest

(* loss called with the extra data forward reported, labels and dataset   *)
(* ids; temporal_embd keeps its default when nothing was reported.         *)
Loss ==
    \E labels \in LabelArgs, dataset_id \in DatasetIdArgs :
        LET temporal_embd ==
                IF call.return_extra_data
                THEN DictGet(call.out[2], "temporal_embd") ELSE None
        IN /\ call.op = "forward"
           /\ call' = [op |-> "loss", x |-> call.x,
                       return_extra_data |-> call.return_extra_data,
                       training |-> call.training,
                       temporal_embd |-> temporal_embd,
                       labels |-> labels, dataset_id |-> dataset_id,
                       out |-> loss(temporal_embd, labels, dataset_id)]
           /\ UNCHANGED training
           /\ AlignerRest

InitAligner ==
    /\ records = <<>>
    /\ fs = EmptyFs
    /\ call = NoCall /\ tk = TkIdle /\ hook = HookIdle
    /\ pipeline = NoPipeline /\ training = TRUE

NextAligner == SetTrain \/ SetEval \/ Forward \/ Loss

SpecAligner == InitAligner /\ [][NextAligner]_vars

(* A tensor computed from x: its data is x's data followed by operations,  *)
(* and it has embd_size channels.                                          *)
IsEmbeddingOf(t, x) ==
    /\ t # None
    /\ Len(t.data) > Len(x.data)
    /\ SubSeq(t.data, 1, Len(x.data)) = x.data
    /\ t.shape[1] = x.shape[1]
    /\ t.shape[2] = embd_size

(* C13: forward returns its input x in either mode and for either value    *)
(* of return_extra_data; the temporal_embd it reports is None exactly when *)
(* the module is in training mode and an embedding computed from x exactly *)
(* when it is in evaluation mode; loss on what a training-mode forward     *)
(* reported returns the empty dict.                                        *)
C13_ForwardReturnsInput ==
    /\ call.op = "forward" =>
          /\ training = call.training
          /\ ~call.return_extra_data => call.out = call.x
          /\ call.return_extra_data =>
                /\ call.out[1] = call.x
                /\ DictKeys(call.out[2]) = {"temporal_embd"}
                /\ (DictGet(call.out[2], "temporal_embd") = None) <=> call.training
                /\ IsEmbeddingOf(DictGet(call.out[2], "temporal_embd"), call.x)
                       <=> ~call.training
    /\ (call.op = "loss" /\ call.training) =>
          /\ call.temporal_embd = None
          /\ call.out = [status |-> "ok", value |-> <<>>]

(* loss called with labels and dataset ids on what a training-mode forward *)
(* reported with return_extra_data set.                                    *)
C13_Witness ==
    /\ call.op = "loss"
    /\ call.training
    /\ call.return_extra_data
    /\ call.labels # None
    /\ call.dataset_id # None
    /\ call.out.value = <<>>

====
